---- MODULE Spec2Model ----
(***************************************************************************)
(* CalAgent: a conversational assistant over the cal.com booking API.      *)
(*                                                                         *)
(*   src/cal_api.py  the Calendar Client (get_scheduled_events,            *)
(*                   book_event, cancel_event)                             *)
(*   src/main.py     the Tool Registry, the AgentExecutor and the CLI loop *)
(*   src/app.py      the Streamlit UI loop                                 *)
(*                                                                         *)
(* Two specifications share the variables:                                 *)
(*   SpecClient  the tools and the Calendar Client called with every       *)
(*               configuration, argument and remote response;              *)
(*   Spec        a CLI or UI session: startup check, conversation loop,    *)
(*               agent iterations, history.                                *)
(*                                                                         *)
(* Text is modelled by its parts: a fixed message is a one-element tuple,  *)
(* an f-string is a tuple of its literal head and the values inserted.     *)
(* A string that is parsed (an id, a start time) is modelled by its        *)
(* characters or fields, and the parser by what it accepts.                *)
(***************************************************************************)
EXTENDS Integers, Sequences, FiniteSets, TLC

VARIABLES
    env,            \* process environment: the secrets read with os.getenv
    now,            \* wall clock, minutes since day 0 00:00 UTC
    call,           \* the tool invocation in progress or last completed
    inflight,       \* the HTTP request awaiting its response (<<>> if none)
    sent,           \* the HTTP requests issued by the current invocation
    sentAt,         \* the clock when the last request was issued
    received,       \* the HTTP response the invocation got (<<>> if none)
    outcome,        \* how the invocation ended: returned value or exception
    mode,           \* "cli" (main.py), "ui" (app.py) or "client" (no session)
    pc,             \* position of the session
    chat_history,   \* the agent-context history
    messages,       \* st.session_state.messages, the display list (UI)
    appended,       \* every entry ever appended to chat_history (history variable)
    clearedAt,      \* Len(appended) at the last Clear Chat (history variable)
    turns,          \* inputs accepted so far
    faults,         \* turns that ended degraded or with an exception
    iterations,     \* AgentExecutor's iteration counter in the current turn
    llmCalls,       \* LLM completions requested in the current turn
    user_input,     \* the utterance of the current turn
    response,       \* what agent_executor.invoke produced for the turn
    shown           \* what the last completed turn showed the user

clientVars == <<call, inflight, sent, sentAt, received, outcome>>
sessionVars == <<mode, pc, chat_history, messages, appended, clearedAt, turns,
                 faults, iterations, llmCalls, user_input, response, shown>>
vars == <<env, now, call, inflight, sent, sentAt, received, outcome, mode, pc,
          chat_history, messages, appended, clearedAt, turns, faults,
          iterations, llmCalls, user_input, response, shown>>

(***************************************************************************)
(* Bounds of the model.                                                    *)
(***************************************************************************)
MaxTurns == 11      \* inputs accepted in one session
MaxFaults == 1      \* turns of a session that end degraded or raising
MaxTicks == 2       \* clock ticks in SpecClient

(***************************************************************************)
(* Program constants.                                                      *)
(***************************************************************************)
max_iterations == 3     \* AgentExecutor(max_iterations=3)
UI_CAP == 20            \* app.py: len(chat_history) > 20
CLI_CAP == 10           \* main.py: len(chat_history) > 10
MEETING_MINUTES == 30   \* timedelta(minutes=30)

MinutesPerDay == 24 * 60

(***************************************************************************)
(* Python values.                                                          *)
(***************************************************************************)
PyNone == [j |-> "null"]
Str(s) == [j |-> "str", v |-> s]
Num(n) == [j |-> "num", v |-> n]

\* how a call ends
Return(v) == [kind |-> "return", value |-> v]
Raise(e) == [kind |-> "raise", value |-> <<e>>]
NoOutcome == [kind |-> "none", value |-> <<>>]

\* dict.get(key, default)
DictGet(d, key, default) == IF key \in DOMAIN d THEN d[key] ELSE default

Min(a, b) == IF a < b THEN a ELSE b

(***************************************************************************)
(* int(s) for a str s (main.py:133, cal_api.py:125): surrounding           *)
(* whitespace is stripped, one sign is allowed, then digits with single    *)
(* underscores between them.  Anything else is a ValueError.               *)
(***************************************************************************)
Digits == {"0", "1", "2", "3", "4", "5", "6", "7", "8", "9"}

DigitVal(c) ==
    CASE c = "0" -> 0 [] c = "1" -> 1 [] c = "2" -> 2 [] c = "3" -> 3
      [] c = "4" -> 4 [] c = "5" -> 5 [] c = "6" -> 6 [] c = "7" -> 7
      [] c = "8" -> 8 [] OTHER -> 9

RECURSIVE LStrip(_)
LStrip(s) == IF s # <<>> /\ Head(s) = " " THEN LStrip(Tail(s)) ELSE s

RECURSIVE RStrip(_)
RStrip(s) ==
    IF s # <<>> /\ s[Len(s)] = " " THEN RStrip(SubSeq(s, 1, Len(s) - 1)) ELSE s

Strip(s) == RStrip(LStrip(s))

Unsigned(s) == IF s # <<>> /\ Head(s) \in {"+", "-"} THEN Tail(s) ELSE s

DigitsOK(s) ==
    /\ s # <<>>
    /\ s[1] \in Digits
    /\ s[Len(s)] \in Digits
    /\ \A i \in 1..Len(s) : s[i] \in Digits \cup {"_"}
    /\ \A i \in 1..(Len(s) - 1) : ~(s[i] = "_" /\ s[i + 1] = "_")

ParsesAsInt(s) == DigitsOK(Unsigned(Strip(s)))

RECURSIVE DigitsValue(_, _)
DigitsValue(s, acc) ==
    IF s = <<>> THEN acc
    ELSE IF Head(s) = "_" THEN DigitsValue(Tail(s), acc)
    ELSE DigitsValue(Tail(s), 10 * acc + DigitVal(Head(s)))

IntOf(s) ==
    LET t == Strip(s)
        n == DigitsValue(Unsigned(t), 0)
    IN IF Head(t) = "-" THEN 0 - n ELSE n

(***************************************************************************)
(* ISO-8601 text.  A start_time string is modelled by its fields:          *)
(*   form  "iso" for text shaped YYYY-MM-DD<sep>HH:MM:SS<zone>, "text" for *)
(*         anything else ("tomorrow at 2pm")                               *)
(*   day   the date, as a day number                                       *)
(*   hh, mm  the digits of the hour and minute fields                      *)
(*   zone  the zone suffix exactly as written                              *)
(***************************************************************************)
Iso(day, sep, hh, mm, zone) ==
    [form |-> "iso", day |-> day, sep |-> sep, hh |-> hh, mm |-> mm, zone |-> zone]

FreeText == [form |-> "text", day |-> 0, sep |-> "", hh |-> 0, mm |-> 0, zone |-> ""]

\* start_time.replace('Z', '+00:00')
ReplaceZ(s) == IF s.zone = "Z" THEN [s EXCEPT !.zone = "+00:00"] ELSE s

\* a zone suffix datetime.fromisoformat accepts, as minutes east of UTC;
\* "naive" for no suffix
ZoneSuffixes == {"", "+00:00", "-00:00", "+05:30", "+0530", "-08:00"}

ZoneOffset(z) ==
    CASE z = "" -> "naive"
      [] z = "+00:00" -> "0"
      [] z = "-00:00" -> "0"
      [] z = "+05:30" -> "330"
      [] z = "+0530" -> "330"
      [] OTHER -> "-480"

OffsetMinutes(o) ==
    CASE o = "330" -> 330 [] o = "-480" -> 0 - 480 [] OTHER -> 0

\* datetime.fromisoformat: a datetime, or ValueError
ParseError == [ok |-> FALSE, day |-> 0, minute |-> 0, tz |-> "naive"]

fromisoformat(s) ==
    IF /\ s.form = "iso"
       /\ s.hh \in 0..23
       /\ s.mm \in 0..59
       /\ s.zone \in ZoneSuffixes
    THEN [ok |-> TRUE, day |-> s.day, minute |-> 60 * s.hh + s.mm,
          tz |-> ZoneOffset(s.zone)]
    ELSE ParseError

\* start_dt + timedelta(minutes=n)
AddMinutesOnDayOnly(dt, n) ==
    [dt EXCEPT !.minute = (dt.minute + n) % MinutesPerDay]

AddMinutes(dt, n) ==
    [dt EXCEPT !.day = dt.day + ((dt.minute + n) \div MinutesPerDay),
               !.minute = (dt.minute + n) % MinutesPerDay]

\* datetime.isoformat(): always 'T', the offset as +HH:MM, nothing if naive
OffsetText(o) ==
    CASE o = "naive" -> ""
      [] o = "0" -> "+00:00"
      [] o = "330" -> "+05:30"
      [] OTHER -> "-08:00"

isoformat(dt) ==
    Iso(dt.day, "T", dt.minute \div 60, dt.minute % 60, OffsetText(dt.tz))

\* text.replace('+00:00', 'Z')
ReplaceUtcOffset(s) == IF s.zone = "+00:00" THEN [s EXCEPT !.zone = "Z"] ELSE s

\* the instant a parsed datetime denotes, in minutes UTC (naive taken as UTC,
\* the payload's timeZone)
Instant(dt) == dt.day * MinutesPerDay + dt.minute - OffsetMinutes(dt.tz)

(***************************************************************************)
(* HTTP.  A response is a transport failure, or a status with a body; a    *)
(* body is not JSON, a JSON array, or a JSON object (a function from its   *)
(* keys).                                                                  *)
(***************************************************************************)
NotJson == [t |-> "notjson", d |-> <<>>]
JsonArray == [t |-> "array", d |-> <<>>]
JsonObject(d) == [t |-> "object", d |-> d]

NetworkFailure == [net |-> "fail", status |-> 0, body |-> NotJson]
Http(status, body) == [net |-> "ok", status |-> status, body |-> body]

\* response.raise_for_status(): HTTPError for 4xx and 5xx
raise_for_status(resp) == 400 <= resp.status /\ resp.status < 600

\* response.json() succeeds
JsonOk(resp) == resp.body.t # "notjson"

\* exception classes, as the except clauses of cal_api.py tell them apart.
\* requests' JSONDecodeError derives from RequestException and from ValueError.
IsHTTPError(e) == e = "HTTPError"
IsRequestException(e) == e \in {"HTTPError", "ConnectionError", "JSONDecodeError"}
IsValueError(e) == e \in {"ValueError", "JSONDecodeError"}

\* str(e), by what it is made of
ExcText(e, resp) == IF e = "HTTPError" THEN <<e, resp.status>> ELSE <<e>>

(***************************************************************************)
(* A step of a client function up to its HTTP request: it has ended       *)
(* (returned or raised) without a request, or a request is on its way.     *)
(***************************************************************************)
Ended(o) == [request |-> <<>>, outcome |-> o]
Requesting(r) == [request |-> <<r>>, outcome |-> NoOutcome]

(***************************************************************************)
(* get_scheduled_events                                     cal_api.py:10  *)
(***************************************************************************)
ListRequest(e) ==
    [method |-> "GET", url |-> <<"https://api.cal.com/v1/bookings">>,
     params |-> [apiKey |-> e.CAL_API_KEY]]

get_scheduled_events_begin(e, user_email) ==
    IF e.CAL_API_KEY = ""
    THEN Ended(Raise("ValueError"))
    ELSE Requesting(ListRequest(e))

\* lines 56-65: one remote record to one event
simplified_event(booking, user_email) ==
    [id |-> DictGet(booking.v, "id", PyNone),
     title |-> DictGet(booking.v, "title", Str("Event")),
     start_time |-> DictGet(booking.v, "startTime", PyNone),
     end_time |-> DictGet(booking.v, "endTime", PyNone),
     status |-> DictGet(booking.v, "status", PyNone),
     attendee_email |-> user_email,
     description |-> DictGet(booking.v, "description", Str("")),
     location |-> DictGet(booking.v, "location", Str("TBD"))]

\* lines 46-68: the body of the try
get_scheduled_events_try(user_email, resp) ==
    IF resp.net = "fail" THEN Raise("ConnectionError")
    ELSE IF raise_for_status(resp) THEN Raise("HTTPError")
    ELSE IF ~JsonOk(resp) THEN Raise("JSONDecodeError")
    ELSE IF resp.body.t # "object" THEN Raise("AttributeError")
    ELSE LET bookings == DictGet(resp.body.d, "bookings", [j |-> "arr", v |-> <<>>])
         IN IF bookings.j # "arr" THEN Raise("TypeError")
            ELSE IF \E i \in 1..Len(bookings.v) : bookings.v[i].j # "obj"
            THEN Raise("AttributeError")
            ELSE Return([i \in 1..Len(bookings.v) |->
                            simplified_event(bookings.v[i], user_email)])

\* lines 70-78: the except clauses
get_scheduled_events_except_narrow(o) ==
    IF o.kind = "raise" /\ (IsRequestException(o.value[1]) \/ o.value[1] = "KeyError")
    THEN Return(<<>>)
    ELSE o

get_scheduled_events_except(o) ==
    IF o.kind = "raise" THEN Return(<<>>) ELSE o

get_scheduled_events_end(user_email, resp) ==
    get_scheduled_events_except(get_scheduled_events_try(user_email, resp))

(***************************************************************************)
(* book_event                                               cal_api.py:81  *)
(***************************************************************************)
MissingApiKey == <<"Error: CAL_API_KEY not found in environment variables">>
MissingEventType == <<"Error: CAL_EVENT_TYPE_ID not found in environment variables">>
InvalidStartTime == <<"Booking failed: Invalid start time format">>
BookingFailed(detail) == <<"Booking failed: ", detail>>
BadRequest == <<"Bad request">>
OwnerBusy ==
    <<"Booking failed: You are not available at this time slot. Please choose a different time when you're free.">>
BookingUnauthorized == <<"Booking failed: Invalid API key or unauthorized access">>
EventTypeNotFound == <<"Booking failed: Event type not found. Check your CAL_EVENT_TYPE_ID">>
BookingHttpFailure(status, text) == <<"Booking failed: HTTP ", status, text>>
BookingNetworkError(text) == <<"Booking failed: Network error - ", text>>
BookingInvalidData(text) == <<"Booking failed: Invalid data format - ", text>>
BookingUnexpected(text) == <<"Booking failed: Unexpected error - ", text>>
Booked(title, id, start_time) ==
    <<"Event successfully booked! Booking ID, Start time: ", title, id, start_time>>

\* line 112: user_email.split('@')[0].replace('.', ' ').title()
Capitalized(w) ==
    CASE w = "john" -> "John" [] w = "doe" -> "Doe" [] w = "sarah" -> "Sarah"
      [] OTHER -> w

attendee_name(user_email) ==
    [i \in 1..Len(user_email.local) |-> Capitalized(user_email.local[i])]

\* lines 117-119: the end of the meeting, as text
end_time_same_day(start_time) ==
    ReplaceUtcOffset(
        isoformat(AddMinutesOnDayOnly(fromisoformat(ReplaceZ(start_time)),
                                      MEETING_MINUTES)))

end_time_of(start_time) ==
    ReplaceUtcOffset(
        isoformat(AddMinutes(fromisoformat(ReplaceZ(start_time)), MEETING_MINUTES)))

\* lines 124-138
booking_data(e, start_time, user_email, event_title) ==
    [eventTypeId |-> IntOf(e.CAL_EVENT_TYPE_ID),
     start |-> start_time,
     end |-> end_time_of(start_time),
     responses |-> [name |-> attendee_name(user_email), email |-> user_email],
     timeZone |-> "UTC",
     language |-> "en",
     title |-> event_title,
     description |-> <<"Booked via API: ", event_title>>,
     status |-> "PENDING"]

BookRequest(e, start_time, user_email, event_title) ==
    [method |-> "POST",
     url |-> <<"https://api.cal.com/v1/bookings?apiKey=", e.CAL_API_KEY>>,
     json |-> booking_data(e, start_time, user_email, event_title)]

\* lines 94-138: up to the request
book_event_begin(e, start_time, user_email, event_title) ==
    IF e.CAL_API_KEY = "" THEN Ended(Return(MissingApiKey))
    ELSE IF e.CAL_EVENT_TYPE_ID = <<>> THEN Ended(Return(MissingEventType))
    ELSE IF ~fromisoformat(ReplaceZ(start_time)).ok
    THEN Ended(Return(InvalidStartTime))
    ELSE IF ~ParsesAsInt(e.CAL_EVENT_TYPE_ID) THEN Ended(Raise("ValueError"))
    ELSE Requesting(BookRequest(e, start_time, user_email, event_title))

\* lines 141-149: the body of the try
book_event_try(start_time, event_title, resp) ==
    IF resp.net = "fail" THEN Raise("ConnectionError")
    ELSE IF raise_for_status(resp) THEN Raise("HTTPError")
    ELSE IF ~JsonOk(resp) THEN Raise("JSONDecodeError")
    ELSE IF resp.body.t # "object" THEN Raise("AttributeError")
    ELSE Return(Booked(event_title, DictGet(resp.body.d, "id", Str("Unknown")),
                       start_time))

\* lines 153-163: the 400 branch
ContainsToken(text, tok) == \E i \in 1..Len(text) : text[i] = tok

book_event_400_attendee(resp) ==
    IF ~JsonOk(resp) \/ resp.body.t # "object" THEN BookingFailed(BadRequest)
    ELSE LET error_detail == DictGet(resp.body.d, "message", Str(BadRequest))
         IN IF error_detail.j # "str" THEN BookingFailed(BadRequest)
            ELSE BookingFailed(error_detail.v)

book_event_400(resp) ==
    IF ~JsonOk(resp) \/ resp.body.t # "object" THEN BookingFailed(BadRequest)
    ELSE LET error_detail == DictGet(resp.body.d, "message", Str(BadRequest))
         IN IF error_detail.j # "str" THEN BookingFailed(BadRequest)
            ELSE IF ContainsToken(error_detail.v, "no_available_users_found_error")
            THEN OwnerBusy
            ELSE BookingFailed(error_detail.v)

\* lines 151-175: the except clauses
book_event_except(o, resp) ==
    IF o.kind # "raise" THEN o
    ELSE LET exc == o.value[1] IN
         IF IsHTTPError(exc) THEN
            IF resp.status = 400 THEN Return(book_event_400(resp))
            ELSE IF resp.status = 401 THEN Return(BookingUnauthorized)
            ELSE IF resp.status = 404 THEN Return(EventTypeNotFound)
            ELSE Return(BookingHttpFailure(resp.status, ExcText(exc, resp)))
         ELSE IF IsRequestException(exc) THEN Return(BookingNetworkError(ExcText(exc, resp)))
         ELSE IF IsValueError(exc) THEN Return(BookingInvalidData(ExcText(exc, resp)))
         ELSE Return(BookingUnexpected(ExcText(exc, resp)))

book_event_end(start_time, event_title, resp) ==
    book_event_except(book_event_try(start_time, event_title, resp), resp)

(***************************************************************************)
(* cancel_event                                            cal_api.py:178  *)
(***************************************************************************)
CancellationFailed(detail) == <<"Cancellation failed: ", detail>>
CancelUnauthorized == <<"Cancellation failed: Invalid API key or unauthorized access">>
BookingNotFound(id) == <<"Cancellation failed: Booking not found: ", id>>
CancelHttpFailure(status, text) == <<"Cancellation failed: HTTP ", status, text>>
CancelNetworkError(text) == <<"Cancellation failed: Network error - ", text>>
CancelUnexpected(text) == <<"Cancellation failed: Unexpected error - ", text>>
Cancelled(id, reason) == <<"Booking successfully cancelled. Reason: ", id, reason>>

CancelRequest(e, booking_id, cancellation_reason) ==
    [method |-> "DELETE",
     url |-> <<"https://api.cal.com/v1/bookings/", booking_id, "/cancel">>,
     params |-> [apiKey |-> e.CAL_API_KEY,
                 cancellationReason |-> cancellation_reason]]

cancel_event_begin(e, booking_id, cancellation_reason) ==
    IF e.CAL_API_KEY = "" THEN Ended(Return(MissingApiKey))
    ELSE Requesting(CancelRequest(e, booking_id, cancellation_reason))

\* lines 209-213: the body of the try
cancel_event_try(booking_id, cancellation_reason, resp) ==
    IF resp.net = "fail" THEN Raise("ConnectionError")
    ELSE IF raise_for_status(resp) THEN Raise("HTTPError")
    ELSE Return(Cancelled(booking_id, cancellation_reason))

\* lines 216-218: the 400 branch; an exception raised here, inside the except
\* clause, is not caught by the clauses that follow it
cancel_event_400(resp) ==
    IF ~JsonOk(resp) THEN Raise("JSONDecodeError")
    ELSE IF resp.body.t # "object" THEN Raise("AttributeError")
    ELSE Return(CancellationFailed(DictGet(resp.body.d, "message", Str(BadRequest))))

\* lines 215-228: the except clauses
cancel_event_except(o, booking_id, resp) ==
    IF o.kind # "raise" THEN o
    ELSE LET exc == o.value[1] IN
         IF IsHTTPError(exc) THEN
            IF resp.status = 400 THEN cancel_event_400(resp)
            ELSE IF resp.status = 401 THEN Return(CancelUnauthorized)
            ELSE IF resp.status = 404 THEN Return(BookingNotFound(booking_id))
            ELSE Return(CancelHttpFailure(resp.status, ExcText(exc, resp)))
         ELSE IF IsRequestException(exc) THEN Return(CancelNetworkError(ExcText(exc, resp)))
         ELSE Return(CancelUnexpected(ExcText(exc, resp)))

cancel_event_end(booking_id, cancellation_reason, resp) ==
    cancel_event_except(cancel_event_try(booking_id, cancellation_reason, resp),
                        booking_id, resp)

(***************************************************************************)
(* The Tool Registry                                        main.py:27-162 *)
(***************************************************************************)
NoEmail == [local |-> <<>>, domain |-> ""]
OwnerEmail == [local |-> <<"song", "wd">>, domain |-> "icloud.com"]

InvalidBookingId(id) ==
    <<"Invalid booking ID. Please provide a valid numeric booking ID.", id>>
CurrentDateTime(t) == <<"Current date and time: ", t>>

\* a tool call: the tool and its arguments (unused arguments left empty)
ToolCall(tool, start_time, attendee_email, meeting_title, id, reason) ==
    [tool |-> tool, start_time |-> start_time, attendee_email |-> attendee_email,
     meeting_title |-> meeting_title, booking_identifier |-> id,
     cancellation_reason |-> reason]

NoCall == ToolCall("none", FreeText, NoEmail, "", <<>>, "")

\* main.py:55: os.getenv('DEFAULT_USER_EMAIL', 'song.wd@icloud.com')
default_email(e) ==
    IF e.DEFAULT_USER_EMAIL = NoEmail THEN OwnerEmail ELSE e.DEFAULT_USER_EMAIL

\* main.py:132-137
cancel_calendar_booking_begin_unchecked(e, c) ==
    IF ~ParsesAsInt(c.booking_identifier)
    THEN Ended(Raise("ValueError"))
    ELSE cancel_event_begin(e, IntOf(c.booking_identifier), c.cancellation_reason)

cancel_calendar_booking_begin(e, c) ==
    IF ~ParsesAsInt(c.booking_identifier)
    THEN Ended(Return(InvalidBookingId(c.booking_identifier)))
    ELSE cancel_event_begin(e, IntOf(c.booking_identifier), c.cancellation_reason)

\* a tool runs up to its HTTP request (or to its end, if it makes none)
ToolBegin(e, c, t) ==
    CASE c.tool = "list_user_events" ->
            get_scheduled_events_begin(e, default_email(e))
      [] c.tool = "create_calendar_booking" ->
            book_event_begin(e, c.start_time, c.attendee_email, c.meeting_title)
      [] c.tool = "cancel_calendar_booking" ->
            cancel_calendar_booking_begin(e, c)
      [] OTHER -> Ended(Return(CurrentDateTime(t)))

\* a tool runs from the HTTP response to its end
ToolEnd(e, c, resp) ==
    CASE c.tool = "list_user_events" ->
            get_scheduled_events_end(default_email(e), resp)
      [] c.tool = "create_calendar_booking" ->
            book_event_end(c.start_time, c.meeting_title, resp)
      [] OTHER ->
            cancel_event_end(IntOf(c.booking_identifier), c.cancellation_reason, resp)

(***************************************************************************)
(* Inputs.                                                                 *)
(***************************************************************************)
\* configurations: each secret absent ("" or empty) or present
ApiKeys == {"", "cal_live_key"}
EventTypeIds == {<<>>, <<"4", "2">>, <<"a", "b", "c">>}
LlmKeys == {"", "sk-key"}

Environments ==
    [OPENAI_API_KEY : LlmKeys, CAL_API_KEY : ApiKeys,
     CAL_EVENT_TYPE_ID : EventTypeIds, DEFAULT_USER_EMAIL : {NoEmail}]

\* the clock starts on day 2 at 12:00 UTC
StartOfTime == 2 * MinutesPerDay + 12 * 60

StartTimes ==
    {Iso(1, "T", 14, 0, "Z"),        \* past
     Iso(2, "T", 12, 0, "Z"),        \* the starting instant itself
     Iso(3, "T", 14, 0, "Z"),
     Iso(3, "T", 14, 45, "Z"),       \* crosses the hour
     Iso(3, "T", 23, 45, "Z"),       \* crosses the day
     Iso(4, "T", 9, 30, "+00:00"),
     Iso(4, "T", 9, 30, "-00:00"),
     Iso(4, "T", 9, 30, ""),
     Iso(5, " ", 23, 30, "+05:30"),
     Iso(5, "T", 8, 15, "-08:00"),
     Iso(5, "T", 8, 15, "+0530"),
     Iso(3, "T", 25, 0, "Z"),        \* no such hour
     Iso(3, "T", 14, 60, ""),        \* no such minute
     Iso(3, "T", 14, 0, "UTC"),      \* no such suffix
     FreeText}

Emails == {[local |-> <<"john", "doe">>, domain |-> "example.com"]}
Titles == {"Project Discussion"}

BookingIdentifiers ==
    {<<"1", "2">>, <<" ", "7", " ">>, <<"-", "3">>, <<"1", "_", "0">>,
     <<"a", "b", "c">>, <<"1", ".", "5">>, <<"7", "_">>, <<>>}
Reasons == {"Meeting cancelled by user", "Schedule conflict"}

ToolCalls ==
    {ToolCall("list_user_events", FreeText, NoEmail, "", <<>>, ""),
     ToolCall("get_current_datetime", FreeText, NoEmail, "", <<>>, "")}
    \cup {ToolCall("create_calendar_booking", st, em, ti, <<>>, "") :
            st \in StartTimes, em \in Emails, ti \in Titles}
    \cup {ToolCall("cancel_calendar_booking", FreeText, NoEmail, "", id, r) :
            id \in BookingIdentifiers, r \in Reasons}

\* remote records
Arr(v) == [j |-> "arr", v |-> v]
Obj(d) == [j |-> "obj", v |-> d]

FullBooking ==
    Obj([id |-> Num(101), title |-> Str("Standup"), startTime |-> Str("T1"),
         endTime |-> Str("T2"), status |-> Str("ACCEPTED"),
         description |-> Str("daily"), location |-> Str("Zoom"),
         attendees |-> Arr(<<Obj([email |-> Str([local |-> <<"john", "doe">>,
                                              domain |-> "example.com"])])>>)])
BareBooking ==
    Obj([id |-> Num(102), startTime |-> Str("T3"), endTime |-> Str("T4"),
         status |-> Str("PENDING")])

Bodies ==
    {NotJson, JsonArray, JsonObject(<<>>),
     JsonObject([id |-> Num(77)]),
     JsonObject([message |-> Str(<<"no_available_users_found_error">>)]),
     JsonObject([message |-> Str(<<"eventTypeId", "is", "invalid">>)]),
     JsonObject([message |-> PyNone]),
     JsonObject([bookings |-> Arr(<<FullBooking, BareBooking>>)]),
     JsonObject([bookings |-> Arr(<<BareBooking, Str("x")>>)]),
     JsonObject([bookings |-> PyNone])}

Statuses == {200, 201, 300, 400, 401, 404, 500}

Responses == {NetworkFailure} \cup {Http(st, b) : st \in Statuses, b \in Bodies}

(***************************************************************************)
(* A tool invocation: from the call to the HTTP request, and from the      *)
(* HTTP response to the result.  The call is synchronous: no other call    *)
(* starts while a request is in flight.                                    *)
(***************************************************************************)
InvokeTool(c) ==
    /\ inflight = <<>>
    /\ LET b == ToolBegin(env, c, now) IN
        /\ call' = c
        /\ inflight' = b.request
        /\ sent' = b.request
        /\ sentAt' = IF b.request # <<>> THEN now ELSE sentAt
        /\ received' = <<>>
        /\ outcome' = b.outcome

DeliverWithRetry(resp) ==
    /\ inflight # <<>>
    /\ inflight' = IF resp.net = "fail" THEN inflight ELSE <<>>
    /\ sent' = IF resp.net = "fail" THEN sent \o inflight ELSE sent
    /\ received' = <<resp>>
    /\ outcome' = IF resp.net = "fail" THEN outcome ELSE ToolEnd(env, call, resp)
    /\ UNCHANGED <<call, sentAt>>

Deliver(resp) ==
    /\ inflight # <<>>
    /\ inflight' = <<>>
    /\ received' = <<resp>>
    /\ outcome' = ToolEnd(env, call, resp)
    /\ UNCHANGED <<call, sent, sentAt>>

(***************************************************************************)
(* SpecClient: the tools called directly, under every configuration.       *)
(***************************************************************************)
InitSessionless ==
    /\ mode = "client"
    /\ pc = "client"
    /\ chat_history = <<>>
    /\ messages = <<>>
    /\ appended = <<>>
    /\ clearedAt = 0
    /\ turns = 0
    /\ faults = 0
    /\ iterations = 0
    /\ llmCalls = 0
    /\ user_input = <<>>
    /\ response = NoOutcome
    /\ shown = <<"">>

InitClient ==
    /\ env \in {e \in Environments : e.OPENAI_API_KEY # ""}
    /\ now = StartOfTime
    /\ call = NoCall
    /\ inflight = <<>>
    /\ sent = <<>>
    /\ sentAt = 0
    /\ received = <<>>
    /\ outcome = NoOutcome
    /\ InitSessionless

ClientCall ==
    /\ pc = "client"
    /\ \E c \in ToolCalls : InvokeTool(c)
    /\ UNCHANGED <<env, now, sessionVars>>

ClientResponse ==
    /\ pc = "client"
    /\ \E resp \in Responses : Deliver(resp)
    /\ UNCHANGED <<env, now, sessionVars>>

ClientTick ==
    /\ pc = "client"
    /\ now < StartOfTime + MaxTicks * MinutesPerDay
    /\ now' = now + MinutesPerDay
    /\ UNCHANGED <<env, clientVars, sessionVars>>

NextClient == ClientCall \/ ClientResponse \/ ClientTick

SpecClient == InitClient /\ [][NextClient]_vars

(***************************************************************************)
(* The session: startup check, conversation loop, agent iterations.        *)
(***************************************************************************)
\* main.py:268-278: each secret is checked, the first one missing exits
cli_environment_ok_two_secrets(e) ==
    /\ e.OPENAI_API_KEY # ""
    /\ e.CAL_API_KEY # ""

cli_environment_ok(e) ==
    /\ e.OPENAI_API_KEY # ""
    /\ e.CAL_API_KEY # ""
    /\ e.CAL_EVENT_TYPE_ID # <<>>

\* app.py:28-38: check_environment stops the script if any is missing
Unset(e, v) == IF v = "CAL_EVENT_TYPE_ID" THEN e[v] = <<>> ELSE e[v] = ""

check_environment(e) ==
    {v \in {"OPENAI_API_KEY", "CAL_API_KEY", "CAL_EVENT_TYPE_ID"} : Unset(e, v)} = {}

HumanMessage(content) == [role |-> "user", content |-> content]
AIMessage(content) == [role |-> "assistant", content |-> content]

\* chat_history[-n:]
LastN(h, n) == SubSeq(h, Len(h) - n + 1, Len(h))
FirstN(h, n) == SubSeq(h, 1, n)

\* main.py:324-329
cli_append_keep_oldest(h, user_message, assistant_message) ==
    LET h2 == h \o <<HumanMessage(user_message), AIMessage(assistant_message)>>
    IN IF Len(h2) > CLI_CAP THEN FirstN(h2, CLI_CAP) ELSE h2

cli_append(h, user_message, assistant_message) ==
    LET h2 == h \o <<HumanMessage(user_message), AIMessage(assistant_message)>>
    IN IF Len(h2) > CLI_CAP THEN LastN(h2, CLI_CAP) ELSE h2

\* app.py:171-176
ui_append_odd_cap(h, user_message, assistant_message) ==
    LET h2 == h \o <<HumanMessage(user_message), AIMessage(assistant_message)>>
    IN IF Len(h2) > UI_CAP THEN LastN(h2, UI_CAP - 1) ELSE h2

ui_append(h, user_message, assistant_message) ==
    LET h2 == h \o <<HumanMessage(user_message), AIMessage(assistant_message)>>
    IN IF Len(h2) > UI_CAP THEN LastN(h2, UI_CAP) ELSE h2

\* app.py:167-168
display_append_capped(m, user_message, assistant_message) ==
    LET m2 == m \o <<HumanMessage(user_message), AIMessage(assistant_message)>>
    IN IF Len(m2) > UI_CAP THEN LastN(m2, UI_CAP) ELSE m2

display_append(m, user_message, assistant_message) ==
    m \o <<HumanMessage(user_message), AIMessage(assistant_message)>>

\* the fixed texts
APOLOGY ==
    <<"I apologize, but I encountered an error processing your request. Please try again.">>
STOPPED == <<"Agent stopped due to iteration limit or time limit.">>
ANSWER == <<"answer">>
ErrorLine(e) == <<"Error: ", e, "Please try again or type 'quit' to exit.">>
AssistantLine(text) == <<"Assistant: ", text>>
NothingShown == <<"">>

\* what the user types at the CLI prompt, by its characters; the k-th
\* utterance of a session is a text of its own
Utterance(k) == <<"message", ToString(k)>>
QuitWords == {<<"quit">>, <<"exit">>, <<"bye">>}
CliCommands == {<<"quit">>, <<"QUIT">>, <<" ", "Exit", " ">>, <<"bye">>, <<>>, <<" ", " ">>}

\* str.lower()
LowerWord(w) ==
    CASE w = "QUIT" -> "quit" [] w = "Exit" -> "exit" [] OTHER -> w
Lower(s) == [i \in 1..Len(s) |-> LowerWord(s[i])]

\* what the LLM asks of the tools within a session, and what the remote
\* side answers
SessionToolCalls ==
    {ToolCall("list_user_events", FreeText, NoEmail, "", <<>>, ""),
     ToolCall("get_current_datetime", FreeText, NoEmail, "", <<>>, "")}
    \cup {ToolCall("create_calendar_booking", st, em, ti, <<>>, "") :
            st \in {Iso(3, "T", 14, 0, "Z"), FreeText}, em \in Emails, ti \in Titles}
    \cup {ToolCall("cancel_calendar_booking", FreeText, NoEmail, "", id,
                   "Meeting cancelled by user") :
            id \in {<<"1", "2">>, <<"a", "b", "c">>}}

SessionResponses ==
    {NetworkFailure,
     Http(200, JsonObject([id |-> Num(77)])),
     Http(400, NotJson)}

\* the configurations a session is started under: each secret absent or
\* present (an event type id that is present but no number is a matter of
\* bookEvent alone and is covered under SpecClient)
SessionEnvironments ==
    {e \in Environments : e.CAL_EVENT_TYPE_ID \in {<<>>, <<"4", "2">>}}

InitSession ==
    /\ mode \in {"cli", "ui"}
    /\ pc = "startup"
    /\ chat_history = <<>>
    /\ messages = <<>>
    /\ appended = <<>>
    /\ clearedAt = 0
    /\ turns = 0
    /\ faults = 0
    /\ iterations = 0
    /\ llmCalls = 0
    /\ user_input = <<>>
    /\ response = NoOutcome
    /\ shown = NothingShown

Init ==
    /\ env \in SessionEnvironments
    /\ now = StartOfTime
    /\ call = NoCall
    /\ inflight = <<>>
    /\ sent = <<>>
    /\ sentAt = 0
    /\ received = <<>>
    /\ outcome = NoOutcome
    /\ InitSession

ResetCall ==
    /\ call' = NoCall
    /\ inflight' = <<>>
    /\ sent' = <<>>
    /\ sentAt' = 0
    /\ received' = <<>>
    /\ outcome' = NoOutcome

\* the turns of a session that may still end degraded or raising
MayFault == faults < MaxFaults

\* main.py:267-280 and app.py:189-193
Startup ==
    /\ pc = "startup"
    /\ pc' = IF mode = "cli"
             THEN (IF cli_environment_ok(env) THEN "AwaitingInput" ELSE "refused")
             ELSE (IF check_environment(env) THEN "AwaitingInput" ELSE "refused")
    /\ UNCHANGED <<env, now, clientVars, mode, chat_history, messages, appended,
                   clearedAt, turns, faults, iterations, llmCalls, user_input,
                   response, shown>>

\* agent_executor.invoke begins: AgentExecutor._call resets its counter
BeginTurn(text) ==
    /\ pc' = "ModelReasoning"
    /\ user_input' = text
    /\ turns' = turns + 1
    /\ iterations' = 0
    /\ llmCalls' = 0
    /\ response' = NoOutcome
    /\ shown' = NothingShown
    /\ now' = now + 1

\* main.py:305-312: a command or an empty line
CliCommand ==
    /\ mode = "cli"
    /\ pc = "AwaitingInput"
    /\ \E raw \in CliCommands :
        /\ user_input' = Strip(raw)
        /\ pc' = IF Lower(Strip(raw)) \in QuitWords THEN "exited" ELSE "AwaitingInput"
    /\ UNCHANGED <<env, now, clientVars, mode, chat_history, messages, appended,
                   clearedAt, turns, faults, iterations, llmCalls, response, shown>>

\* main.py:305-318: an utterance
CliUtterance ==
    /\ mode = "cli"
    /\ pc = "AwaitingInput"
    /\ turns < MaxTurns
    /\ BeginTurn(Strip(<<" ">> \o Utterance(turns + 1)))
    /\ UNCHANGED <<env, clientVars, mode, chat_history, messages, appended,
                   clearedAt, faults>>

\* main.py:331-333: Ctrl-C at the prompt or while the agent runs
KeyboardInterrupt ==
    /\ mode = "cli"
    /\ pc \in {"AwaitingInput", "ModelReasoning", "ToolExecution"}
    /\ pc' = "exited"
    /\ inflight' = <<>>
    /\ UNCHANGED <<env, now, call, sent, sentAt, received, outcome, mode,
                   chat_history, messages, appended, clearedAt, turns, faults,
                   iterations, llmCalls, user_input, response, shown>>

\* app.py:271-282: st.chat_input yields a non-empty prompt
ChatInput ==
    /\ mode = "ui"
    /\ pc = "AwaitingInput"
    /\ turns < MaxTurns
    /\ BeginTurn(Utterance(turns + 1))
    /\ UNCHANGED <<env, clientVars, mode, chat_history, messages, appended,
                   clearedAt, faults>>

\* app.py:242-245
ClearChat ==
    /\ mode = "ui"
    /\ pc = "AwaitingInput"
    /\ messages' = <<>>
    /\ chat_history' = <<>>
    /\ clearedAt' = Len(appended)
    /\ UNCHANGED <<env, now, clientVars, mode, pc, appended, turns, faults,
                   iterations, llmCalls, user_input, response, shown>>

(***************************************************************************)
(* AgentExecutor (main.py:250-257).  Each pass of its loop asks the LLM    *)
(* for the next step; a final answer ends the loop, a tool request runs    *)
(* the tool and counts one iteration, and the loop is left with the        *)
(* stopped response once max_iterations passes are counted.  An output     *)
(* that does not parse is fed back as an observation                       *)
(* (handle_parsing_errors) and counts as a pass; an exception of the LLM   *)
(* call or of a tool leaves invoke.  The tool call of a pass is over when  *)
(* the LLM is asked again: its record is dropped then.                     *)
(***************************************************************************)
should_continue_inclusive(n) == n <= max_iterations

should_continue(n) == n < max_iterations

\* the end of a pass: count it and test the loop condition
Observe ==
    /\ iterations' = iterations + 1
    /\ IF should_continue(iterations + 1)
       THEN pc' = "ModelReasoning" /\ response' = response
       ELSE pc' = "FinalAnswer" /\ response' = Return(STOPPED)

LastPass == ~should_continue(iterations + 1)

LLMFinalAnswer ==
    /\ pc = "ModelReasoning"
    /\ llmCalls' = llmCalls + 1
    /\ pc' = "FinalAnswer"
    /\ response' = Return(ANSWER)
    /\ ResetCall
    /\ UNCHANGED <<env, now, mode, chat_history, messages, appended,
                   clearedAt, turns, faults, iterations, user_input, shown>>

LLMFails ==
    /\ pc = "ModelReasoning"
    /\ MayFault
    /\ llmCalls' = llmCalls + 1
    /\ pc' = "Raised"
    /\ response' = Raise("APIConnectionError")
    /\ ResetCall
    /\ UNCHANGED <<env, now, mode, chat_history, messages, appended,
                   clearedAt, turns, faults, iterations, user_input, shown>>

LLMMalformedOutput ==
    /\ pc = "ModelReasoning"
    /\ LastPass => MayFault
    /\ llmCalls' = llmCalls + 1
    /\ Observe
    /\ ResetCall
    /\ UNCHANGED <<env, now, mode, chat_history, messages, appended,
                   clearedAt, turns, faults, user_input, shown>>

\* the LLM requests a tool: the tool runs to its end, to an exception, or
\* to its HTTP request
LLMToolCall ==
    /\ pc = "ModelReasoning"
    /\ llmCalls' = llmCalls + 1
    /\ \E c \in SessionToolCalls :
        /\ InvokeTool(c)
        /\ (ToolBegin(env, c, now).outcome.kind = "raise"
                \/ (LastPass /\ ToolBegin(env, c, now).request = <<>>)) => MayFault
        /\ IF ToolBegin(env, c, now).request # <<>>
           THEN /\ pc' = "ToolExecution"
                /\ UNCHANGED <<iterations, response>>
           ELSE IF ToolBegin(env, c, now).outcome.kind = "raise"
           THEN /\ pc' = "Raised"
                /\ response' = ToolBegin(env, c, now).outcome
                /\ UNCHANGED iterations
           ELSE Observe
    /\ UNCHANGED <<env, now, mode, chat_history, messages, appended, clearedAt,
                   turns, faults, user_input, shown>>

\* the HTTP response arrives and the tool ends
ToolResponse ==
    /\ pc = "ToolExecution"
    /\ \E resp \in SessionResponses :
        /\ Deliver(resp)
        /\ (ToolEnd(env, call, resp).kind = "raise" \/ LastPass) => MayFault
        /\ IF ToolEnd(env, call, resp).kind = "raise"
           THEN /\ pc' = "Raised"
                /\ response' = ToolEnd(env, call, resp)
                /\ UNCHANGED iterations
           ELSE Observe
    /\ UNCHANGED <<env, now, mode, chat_history, messages, appended, clearedAt,
                   turns, faults, llmCalls, user_input, shown>>

Faulted == response.kind = "raise" \/ response = Return(STOPPED)

\* main.py:320-336: the turn ends in the CLI loop
CliCompleteTurnRecordsError ==
    /\ mode = "cli"
    /\ pc \in {"FinalAnswer", "Raised"}
    /\ pc' = "AwaitingInput"
    /\ faults' = IF Faulted THEN faults + 1 ELSE faults
    /\ IF response.kind = "return"
       THEN /\ shown' = AssistantLine(response.value)
            /\ chat_history' = cli_append(chat_history, user_input, response.value)
            /\ appended' = appended \o <<HumanMessage(user_input),
                                         AIMessage(response.value)>>
       ELSE /\ shown' = ErrorLine(response.value)
            /\ chat_history' = cli_append(chat_history, user_input, APOLOGY)
            /\ appended' = appended \o <<HumanMessage(user_input),
                                         AIMessage(APOLOGY)>>
    /\ ResetCall
    /\ UNCHANGED <<env, now, mode, messages, clearedAt, turns, iterations,
                   llmCalls, user_input, response>>

CliCompleteTurn ==
    /\ mode = "cli"
    /\ pc \in {"FinalAnswer", "Raised"}
    /\ pc' = "AwaitingInput"
    /\ faults' = IF Faulted THEN faults + 1 ELSE faults
    /\ IF response.kind = "return"
       THEN /\ shown' = AssistantLine(response.value)
            /\ chat_history' = cli_append(chat_history, user_input, response.value)
            /\ appended' = appended \o <<HumanMessage(user_input),
                                         AIMessage(response.value)>>
       ELSE /\ shown' = ErrorLine(response.value)
            /\ UNCHANGED <<chat_history, appended>>
    /\ ResetCall
    /\ UNCHANGED <<env, now, mode, messages, clearedAt, turns, iterations,
                   llmCalls, user_input, response>>

\* app.py:130-135: process_user_message_with_steps returns the output, or
\* the apology when invoke raised
ui_reply_unguarded(r) == r.value

ui_reply(r) == IF r.kind = "return" THEN r.value ELSE APOLOGY

\* app.py:282-291: the turn ends in the UI script
UiCompleteTurn ==
    /\ mode = "ui"
    /\ pc \in {"FinalAnswer", "Raised"}
    /\ pc' = "AwaitingInput"
    /\ faults' = IF Faulted THEN faults + 1 ELSE faults
    /\ shown' = ui_reply(response)
    /\ messages' = display_append(messages, user_input, ui_reply(response))
    /\ chat_history' = ui_append(chat_history, user_input, ui_reply(response))
    /\ appended' = appended \o <<HumanMessage(user_input),
                                 AIMessage(ui_reply(response))>>
    /\ ResetCall
    /\ UNCHANGED <<env, now, mode, clearedAt, turns, iterations, llmCalls,
                   user_input, response>>

Next ==
    \/ Startup
    \/ CliCommand
    \/ CliUtterance
    \/ KeyboardInterrupt
    \/ ChatInput
    \/ ClearChat
    \/ LLMFinalAnswer
    \/ LLMFails
    \/ LLMMalformedOutput
    \/ LLMToolCall
    \/ ToolResponse
    \/ CliCompleteTurn
    \/ UiCompleteTurn

Spec == Init /\ [][Next]_vars

(***************************************************************************)
(* Conversation loop: properties (checked under Spec).                     *)
(***************************************************************************)
Cap == IF mode = "ui" THEN UI_CAP ELSE CLI_CAP
SinceClear == SubSeq(appended, clearedAt + 1, Len(appended))
InTurn == pc \in {"ModelReasoning", "ToolExecution"}

\* C1 as stated: in every state the history is the last min(cap, n) of the
\* n entries appended so far in the session, in their order.
C1_HistoryIsTailOfSession ==
    chat_history = LastN(appended, Min(Cap, Len(appended)))

\* C1 amended: in every state the history is the last min(cap, n) of the n
\* entries appended since the session began or, in the UI, since the last
\* Clear Chat, in their order; its length never exceeds the cap (20 in the
\* UI loop, 10 in the CLI loop).
C1_HistoryIsTailSinceClear ==
    /\ chat_history = LastN(SinceClear, Min(Cap, Len(SinceClear)))
    /\ Len(chat_history) <= Cap

C1_Witness ==
    /\ mode = "ui"
    /\ Len(SinceClear) > UI_CAP
    /\ Len(chat_history) = UI_CAP
    /\ chat_history[1] = SinceClear[3]

\* C2: a turn never makes more than max_iterations passes of the
\* reasoning/tool loop, whatever the LLM answers: the loop is only ever
\* inside a pass with fewer than max_iterations passes counted, the LLM is
\* asked at most max_iterations times, the final answer after
\* max_iterations passes is the stopped (degraded) one, and every step
\* inside a turn either leaves the loop or counts a pass or an LLM request,
\* so no turn loops for ever.
C2_IterationCapInvariant ==
    /\ iterations <= max_iterations
    /\ llmCalls <= max_iterations
    /\ InTurn => iterations < max_iterations
    /\ pc = "FinalAnswer"
        => (iterations = max_iterations <=> response = Return(STOPPED))

C2_TurnProgress ==
    InTurn => \/ ~InTurn'
              \/ iterations' + llmCalls' > iterations + llmCalls

C2_TurnEndsWithinCap == []C2_IterationCapInvariant /\ [][C2_TurnProgress]_vars

C2_Witness ==
    /\ pc = "FinalAnswer"
    /\ response = Return(STOPPED)
    /\ iterations = max_iterations
    /\ llmCalls = max_iterations
    /\ call.tool = "cancel_calendar_booking"

TurnRaised == pc = "AwaitingInput" /\ response.kind = "raise"

\* C3 as stated: in both loops a turn whose agent invocation raised ends
\* with the fixed apology as its reply.
C3_RaisedTurnYieldsApology == TurnRaised => shown = APOLOGY

\* C3 amended: an exception of the agent invocation never ends the loop,
\* which goes on to await the next input.  In the UI loop the turn's reply
\* is the fixed apology, appended to the history as the assistant's turn;
\* in the CLI loop the exception's text is printed in an error line and the
\* turn has no reply (nothing is appended).
C3_RaisedTurnIsCaught ==
    /\ pc = "Raised" => response.kind = "raise"
    /\ (TurnRaised /\ mode = "ui")
        => /\ shown = APOLOGY
           /\ appended[Len(appended)] = AIMessage(APOLOGY)
           /\ appended[Len(appended) - 1] = HumanMessage(user_input)
    /\ (TurnRaised /\ mode = "cli")
        => /\ shown = ErrorLine(response.value)
           /\ \A i \in 1..Len(appended) : appended[i].content # user_input

C3_Witness ==
    /\ TurnRaised
    /\ mode = "ui"
    /\ response = Raise("JSONDecodeError")
    /\ shown = APOLOGY

(***************************************************************************)
(* Calendar Client and Tool Registry: properties (checked under            *)
(* SpecClient).                                                            *)
(***************************************************************************)
Completed(tool) == call.tool = tool /\ inflight = <<>> /\ outcome.kind # "none"
Answered(tool) == Completed(tool) /\ received # <<>>

\* what the remote side can do wrong for a list request
TransportFailed == received[1].net = "fail"
ErrorStatus == received[1].net = "ok" /\ received[1].status \in 400..599
NonSuccessStatus == received[1].net = "ok" /\ received[1].status \notin 200..299
BookingsMalformed ==
    /\ received[1].net = "ok"
    /\ \/ received[1].body.t # "object"
       \/ /\ "bookings" \in DOMAIN received[1].body.d
          /\ \/ received[1].body.d["bookings"].j # "arr"
             \/ \E i \in 1..Len(received[1].body.d["bookings"].v) :
                    received[1].body.d["bookings"].v[i].j # "obj"

C5_BookNeverRaises ==
    call.tool = "create_calendar_booking" => outcome.kind # "raise"

\* C6: cancelEvent never raises to its caller, whatever the booking id and
\* the remote outcome: it returns a string.
C6_CancelNeverRaises ==
    call.tool = "cancel_calendar_booking" => outcome.kind # "raise"

\* identifiers int() rejects, start times datetime.fromisoformat rejects
MalformedIds == {<<"a", "b", "c">>, <<"1", ".", "5">>, <<"7", "_">>, <<>>}
MalformedStartTimes ==
    {Iso(3, "T", 25, 0, "Z"), Iso(3, "T", 14, 60, ""), Iso(3, "T", 14, 0, "UTC"),
     FreeText}
Configured == env.CAL_API_KEY # "" /\ env.CAL_EVENT_TYPE_ID # <<>>

\* C7: malformed input is rejected before any network call.  A booking
\* identifier that is no integer makes cancel_calendar_booking return the
\* invalid-booking-id text, and an unparseable start_time makes bookEvent (in
\* a process whose calendar secrets are set, as startup requires) return the
\* invalid-start-time text; neither issues a request, and neither text is the
\* result of any call with well-formed input.
C7_MalformedInputRejectedLocally ==
    /\ (call.tool = "cancel_calendar_booking"
            /\ call.booking_identifier \in MalformedIds)
        => /\ outcome = Return(InvalidBookingId(call.booking_identifier))
           /\ sent = <<>> /\ inflight = <<>>
    /\ (call.tool = "create_calendar_booking"
            /\ call.start_time \in MalformedStartTimes)
        => /\ sent = <<>> /\ inflight = <<>>
           /\ Configured => outcome = Return(InvalidStartTime)
    /\ (Completed("cancel_calendar_booking")
            /\ call.booking_identifier \notin MalformedIds)
        => outcome.value[1] # InvalidBookingId(call.booking_identifier)[1]
    /\ (Completed("create_calendar_booking")
            /\ call.start_time \notin MalformedStartTimes)
        => outcome # Return(InvalidStartTime)

C7_Witness ==
    /\ Configured
    /\ \/ /\ Completed("cancel_calendar_booking")
          /\ call.booking_identifier = <<"1", ".", "5">>
          /\ sent = <<>>
       \/ /\ Completed("create_calendar_booking")
          /\ call.start_time = FreeText
          /\ outcome = Return(InvalidStartTime)

\* the minute a start or end text names, counted from day 0, as written
WrittenMinute(t) == t.day * MinutesPerDay + 60 * t.hh + t.mm
CreationRequests == {i \in 1..Len(sent) : sent[i].method = "POST"}

\* C8 as stated: the payload's end is the start plus 30 minutes, written
\* with the zone suffix of the start.
C8_EndSameZoneAsStart ==
    \A i \in CreationRequests :
        /\ WrittenMinute(sent[i].json.end)
                = WrittenMinute(sent[i].json.start) + MEETING_MINUTES
        /\ sent[i].json.end.zone = sent[i].json.start.zone

\* the suffix that writes the offset of a start's suffix as +HH:MM, or as
\* 'Z' when it is zero
WrittenOffset(z) ==
    CASE z \in {"Z", "+00:00", "-00:00"} -> "Z"
      [] z \in {"+05:30", "+0530"} -> "+05:30"
      [] OTHER -> z

\* C8 amended: the payload's end is the start plus exactly 30 minutes, as a
\* valid time of day (carrying into the next hour and day), written with the
\* UTC offset of the start in +HH:MM form: nothing for a start without
\* offset, and 'Z' for a zero offset however the start writes it ('Z',
\* '+00:00', '-00:00').
C8_EndIsStartPlus30 ==
    \A i \in CreationRequests :
        LET s == sent[i].json.start
            e == sent[i].json.end
        IN /\ WrittenMinute(e) = WrittenMinute(s) + MEETING_MINUTES
           /\ e.hh \in 0..23 /\ e.mm \in 0..59
           /\ e.zone = WrittenOffset(s.zone)

C8_Witness ==
    /\ Answered("create_calendar_booking")
    /\ sent # <<>>
    /\ sent[1].json.start = Iso(3, "T", 23, 45, "Z")
    /\ sent[1].json.end = Iso(4, "T", 0, 15, "Z")

\* C9: a creation request is issued only for a start_time strictly after
\* the instant at which it is issued.
C9_OnlyFutureBookingsSent ==
    \A i \in CreationRequests :
        Instant(fromisoformat(ReplaceZ(sent[i].json.start))) > sentAt

\* the message field of a 400 body, when it has one that is text
HasMessage ==
    /\ received[1].body.t = "object"
    /\ "message" \in DOMAIN received[1].body.d
    /\ received[1].body.d["message"].j = "str"
RemoteMessage == received[1].body.d["message"].v
MentionsNoUsers == ContainsToken(RemoteMessage, "no_available_users_found_error")
BookStatus(st) ==
    Answered("create_calendar_booking") /\ received[1].net = "ok"
        /\ received[1].status = st

\* C10 as stated: a 400 whose message names no_available_users_found_error
\* returns the owner-is-busy text, any other 400 the remote message, 401 the
\* unauthorized text, 404 the event-type text, every other non-2xx status
\* the generic HTTP failure text.
C10_BookFailureByStatus ==
    /\ (BookStatus(400) /\ HasMessage /\ MentionsNoUsers) => outcome = Return(OwnerBusy)
    /\ (BookStatus(400) /\ ~(HasMessage /\ MentionsNoUsers))
        => HasMessage /\ outcome = Return(BookingFailed(RemoteMessage))
    /\ BookStatus(401) => outcome = Return(BookingUnauthorized)
    /\ BookStatus(404) => outcome = Return(EventTypeNotFound)
    /\ \A st \in Statuses \ ((200..299) \cup {400, 401, 404}) :
        BookStatus(st)
            => outcome = Return(BookingHttpFailure(st, <<"HTTPError", st>>))

\* C10 amended: as stated, except that a 400 whose body has no text message
\* (not JSON, no message field) returns the fixed "Bad request" text, and
\* the generic HTTP failure text is returned for every other 4xx/5xx status.
C10_BookFailureByErrorStatus ==
    /\ (BookStatus(400) /\ HasMessage /\ MentionsNoUsers) => outcome = Return(OwnerBusy)
    /\ (BookStatus(400) /\ HasMessage /\ ~MentionsNoUsers)
        => outcome = Return(BookingFailed(RemoteMessage))
    /\ (BookStatus(400) /\ ~HasMessage)
        => outcome = Return(BookingFailed(<<"Bad request">>))
    /\ BookStatus(401) => outcome = Return(BookingUnauthorized)
    /\ BookStatus(404) => outcome = Return(EventTypeNotFound)
    /\ \A st \in (Statuses \cap (400..599)) \ {400, 401, 404} :
        BookStatus(st)
            => outcome = Return(BookingHttpFailure(st, <<"HTTPError", st>>))

C10_Witness ==
    /\ BookStatus(400)
    /\ HasMessage /\ MentionsNoUsers
    /\ outcome = Return(OwnerBusy)

CancelStatus(st) ==
    Answered("cancel_calendar_booking") /\ received[1].net = "ok"
        /\ received[1].status = st
CancelledId == IntOf(call.booking_identifier)

\* C11: cancelEvent maps remote outcomes to text.  A success status returns
\* the text holding the booking id and the supplied reason, a 404 the
\* not-found text holding the booking id, a 401 the unauthorized text, a 400
\* the text holding the remote message, and any other status the generic
\* HTTP failure text.
C11_CancelOutcomeByStatus ==
    /\ \A st \in Statuses \cap (200..299) :
        CancelStatus(st)
            => outcome = Return(Cancelled(CancelledId, call.cancellation_reason))
    /\ CancelStatus(404) => outcome = Return(BookingNotFound(CancelledId))
    /\ CancelStatus(401) => outcome = Return(CancelUnauthorized)
    /\ CancelStatus(400)
        => /\ outcome.kind = "return"
           /\ HasMessage => outcome = Return(CancellationFailed(received[1].body.d["message"]))
    /\ \A st \in Statuses \ ((200..299) \cup {400, 401, 404}) :
        CancelStatus(st)
            => outcome = Return(CancelHttpFailure(st, <<"HTTPError", st>>))

\* a list response that carries booking records: a status that passes
\* raise_for_status, a JSON object whose "bookings" is an array of objects
RemoteRecords == received[1].body.d["bookings"].v
ListsRecords ==
    /\ Answered("list_user_events")
    /\ received[1].net = "ok"
    /\ ~raise_for_status(received[1])
    /\ received[1].body.t = "object"
    /\ "bookings" \in DOMAIN received[1].body.d
    /\ received[1].body.d["bookings"].j = "arr"
    /\ \A i \in 1..Len(RemoteRecords) : RemoteRecords[i].j = "obj"

\* the field of a remote record, or the default when the record lacks it
FieldOr(rec, key, default) ==
    IF key \in DOMAIN rec.v THEN rec.v[key] ELSE default

\* the address of the (first) attendee a remote record names
AttendeeOf(rec) == rec.v["attendees"].v[1].v["email"]

\* C12: for a remote list response with N booking records, listEvents
\* returns exactly N Events in the order of the records, each field of an
\* Event taken from the corresponding field of its record, a missing title
\* being "Event", a missing description the empty string and a missing
\* location "TBD".
C12_ListMapsEachRecord ==
    ListsRecords =>
        /\ outcome.kind = "return"
        /\ Len(outcome.value) = Len(RemoteRecords)
        /\ \A i \in 1..Len(RemoteRecords) :
            LET rec == RemoteRecords[i]
                ev == outcome.value[i]
            IN /\ ev.id = FieldOr(rec, "id", PyNone)
               /\ ev.title = FieldOr(rec, "title", Str("Event"))
               /\ ev.start_time = FieldOr(rec, "startTime", PyNone)
               /\ ev.end_time = FieldOr(rec, "endTime", PyNone)
               /\ ev.status = FieldOr(rec, "status", PyNone)
               /\ ev.description = FieldOr(rec, "description", Str(""))
               /\ ev.location = FieldOr(rec, "location", Str("TBD"))
               /\ "attendees" \in DOMAIN rec.v
                    => Str(ev.attendee_email) = AttendeeOf(rec)

\* C14 (state): an invocation has sent at most one request; while the
\* request is in flight there is no result yet, and once its response has
\* arrived nothing is in flight and the invocation has its result.
C14_OneRequestPerInvocation ==
    /\ Len(sent) <= 1
    /\ inflight # <<>>
        => inflight = sent /\ received = <<>> /\ outcome.kind = "none"
    /\ received # <<>>
        => inflight = <<>> /\ Len(sent) = 1 /\ outcome.kind # "none"
    /\ (call.tool = "get_current_datetime" /\ outcome.kind # "none") => sent = <<>>

\* C14 (step): after the response of an invocation has arrived, a step
\* either begins a new invocation or leaves the request sent, the response
\* and the result as they are.
C14_ResultReportedOnce ==
    received # <<>>
        => \/ received' = <<>>
           \/ UNCHANGED <<sent, received, outcome>>

\* C14: no retries.  Each invocation of listEvents, bookEvent or cancelEvent
\* issues at most one HTTP request, whether it succeeds or fails, and a
\* failed remote call is reported once, as the result of its invocation.
C14_NoRetries ==
    []C14_OneRequestPerInvocation /\ [][C14_ResultReportedOnce]_vars

C14_Witness ==
    /\ Answered("create_calendar_booking")
    /\ received[1] = NetworkFailure
    /\ Len(sent) = 1
    /\ outcome = Return(BookingNetworkError(<<"ConnectionError">>))

(***************************************************************************)
(* Startup and history: further properties (checked under Spec).           *)
(***************************************************************************)
SecretsPresent ==
    /\ env.OPENAI_API_KEY # ""
    /\ env.CAL_API_KEY # ""
    /\ env.CAL_EVENT_TYPE_ID # <<>>

\* C13: with any of the three required secrets absent, startup is refused in
\* the CLI and in the UI: no user turn is accepted, the LLM is never asked
\* and no tool runs or sends a request; hence no tool call of a session ever
\* ends with a missing-secret result (the missing-key texts of bookEvent and
\* cancelEvent, the missing-key ValueError of listEvents).
C13_MissingSecretRefusesStartup ==
    /\ ~SecretsPresent
        => /\ pc \in {"startup", "refused"}
           /\ turns = 0 /\ llmCalls = 0 /\ user_input = <<>>
           /\ call = NoCall /\ sent = <<>> /\ inflight = <<>>
           /\ chat_history = <<>> /\ messages = <<>>
    /\ call.tool \in {"create_calendar_booking", "cancel_calendar_booking"}
        => outcome \notin {Return(MissingApiKey), Return(MissingEventType)}
    /\ call.tool = "list_user_events" => outcome # Raise("ValueError")

C13_Witness ==
    /\ mode = "ui"
    /\ pc = "refused"
    /\ env.OPENAI_API_KEY # "" /\ env.CAL_API_KEY # ""
    /\ env.CAL_EVENT_TYPE_ID = <<>>

\* C15 (state): the history has even length and alternates user, assistant
\* from a user turn on.
C15_HistoryAlternates ==
    /\ Len(chat_history) % 2 = 0
    /\ \A i \in 1..Len(chat_history) :
        chat_history[i].role = IF i % 2 = 1 THEN "user" ELSE "assistant"

\* C15 (step): a step that changes the history empties it (Clear Chat) or
\* appends one user turn followed by one assistant turn and then keeps the
\* last min(cap, length) entries, dropping whole pairs only.
C15_UpdateAppendsOnePair ==
    chat_history' # chat_history
        => \/ chat_history' = <<>>
           \/ /\ Len(chat_history') >= 2
              /\ LET pair == LastN(chat_history', 2)
                     h2 == chat_history \o pair
                 IN /\ pair[1].role = "user" /\ pair[2].role = "assistant"
                    /\ pair[1].content = user_input
                    /\ Len(chat_history') = Min(Cap, Len(h2))
                    /\ chat_history' = LastN(h2, Len(chat_history'))
                    /\ (Len(h2) - Len(chat_history')) % 2 = 0

\* C15: in every reachable state of either loop the history has even
\* length, starts with a user turn and strictly alternates; every update
\* appends exactly one user turn followed by one assistant turn, and the
\* truncation to the cap (20 or 10) never splits a pair.
C15_HistoryIsPairs ==
    []C15_HistoryAlternates /\ [][C15_UpdateAppendsOnePair]_vars

C15_Witness ==
    /\ mode = "ui"
    /\ pc = "AwaitingInput"
    /\ Len(appended) - clearedAt = UI_CAP + 2
    /\ Len(chat_history) = UI_CAP
    /\ chat_history[1] = HumanMessage(Utterance(2))

\* C16 (step), for the CLI loop: (a) the end of a turn whose invocation
\* raised leaves the history as it is and returns to the prompt; (b) an
\* empty line (after strip) leaves the history as it is and returns to the
\* prompt; (c) within a turn that has no reply yet the history does not
\* change; (d) the loop ends only on a line that reads quit, exit or bye in
\* any case, or on a keyboard interrupt, which reads no input and changes
\* no history.
C16_NoReplyKeepsHistory ==
    mode = "cli" =>
        /\ (pc = "Raised" /\ pc' # pc)
            => chat_history' = chat_history /\ pc' = "AwaitingInput"
        /\ (pc = "AwaitingInput" /\ user_input' = <<>>)
            => chat_history' = chat_history
        /\ (pc = "AwaitingInput" /\ user_input # <<>> /\ user_input' = <<>>)
            => pc' = "AwaitingInput"
        /\ pc \in {"ModelReasoning", "ToolExecution"}
            => chat_history' = chat_history
        /\ (pc # "exited" /\ pc' = "exited")
            => /\ chat_history' = chat_history
               /\ \/ pc = "AwaitingInput" /\ Lower(user_input') \in QuitWords
                  \/ /\ pc \in {"AwaitingInput", "ModelReasoning", "ToolExecution"}
                     /\ user_input' = user_input
        /\ pc = "exited" => pc' = "exited"

\* C16: in the CLI loop a turn that produces no reply (the invocation
\* raised, or the input was empty) leaves chat_history exactly as it was and
\* the loop goes on accepting input; only quit, exit, bye or a keyboard
\* interrupt ends the loop.
C16_CliNoReplyFrame == [][C16_NoReplyKeepsHistory]_vars

C16_Witness ==
    /\ mode = "cli"
    /\ pc = "AwaitingInput"
    /\ response.kind = "raise"
    /\ shown = ErrorLine(response.value)
    /\ turns = 3
    /\ Len(chat_history) = 4
    /\ chat_history = appended

\* C17 (state), for the UI session: the agent-context history is the last
\* min(20, length) entries of the display list, role by role and text by
\* text.
C17_HistoryIsTailOfDisplay ==
    mode = "ui"
        => chat_history = LastN(messages, Min(UI_CAP, Len(messages)))

\* C17 (step), for the UI session: the display list only grows, by one user
\* entry and one assistant entry at its end, or is emptied together with
\* the history; and no step changes one of the two without the other.
C17_DisplayNeverTruncated ==
    mode = "ui" =>
        /\ messages' # messages
            => \/ messages' = <<>> /\ chat_history' = <<>>
               \/ /\ Len(messages') = Len(messages) + 2
                  /\ SubSeq(messages', 1, Len(messages)) = messages
                  /\ messages'[Len(messages') - 1] = HumanMessage(user_input)
                  /\ messages'[Len(messages')].role = "assistant"
        /\ (messages' # messages) <=> (chat_history' # chat_history)

\* C17: in the UI session chat_history always holds the same (role, text)
\* sequence as the last min(20, len(messages)) entries of messages, which is
\* never truncated; Clear Chat empties both, and no other action changes
\* one without the other.
C17_HistoryMirrorsDisplay ==
    []C17_HistoryIsTailOfDisplay /\ [][C17_DisplayNeverTruncated]_vars

C17_Witness ==
    /\ mode = "ui"
    /\ Len(messages) = UI_CAP + 2
    /\ Len(chat_history) = UI_CAP
    /\ chat_history[1] = messages[3]
    /\ messages[1] = HumanMessage(Utterance(1))

====
